---- MODULE Spec2Model ----
(***************************************************************************)
(* SpriteFileSystemProvider (src/src/spriteFileSystem.ts): a file-system   *)
(* provider that turns each file operation into shell commands run on a    *)
(* remote sprite through sprite.exec, and synthesises change events.       *)
(*                                                                         *)
(* The remote side is modelled as one directory tree per sprite name, and  *)
(* every command string of the source as an operator on that tree which    *)
(* returns the new tree together with stdout and stderr.  sprite.exec      *)
(* either rejects (a transport failure) or resolves with stdout/stderr; a  *)
(* non-zero exit status of the remote command shows only in stderr.        *)
(* Timestamps (mtime, ctime) of stat are left out of the model.            *)
(***************************************************************************)
EXTENDS Integers, Sequences, FiniteSets, TLC

(***************************************************************************)
(* Bounds of the model.                                                    *)
(***************************************************************************)
MaxDepth == 3
NumProcs == 2
MaxSessions == 2

(***************************************************************************)
(* Paths.  An absolute path is the sequence of its components: <<>> is     *)
(* "/", <<"d","g">> is "/d/g".                                             *)
(***************************************************************************)
Sprites == {"box1", "box2"}
NameOrder == <<"d", "g">>
Names == {NameOrder[i] : i \in 1..Len(NameOrder)}
Root == <<>>

RECURSIVE PathsUpTo(_)
PathsUpTo(n) ==
    IF n = 0 THEN {Root}
    ELSE LET shorter == PathsUpTo(n - 1)
         IN  shorter \cup {Append(p, c) : p \in {q \in shorter : Len(q) = n - 1}, c \in Names}

Paths == PathsUpTo(MaxDepth)

IsPrefix(p, q) == Len(p) <= Len(q) /\ SubSeq(q, 1, Len(p)) = p
Basename(p) == p[Len(p)]
Dirname(p) == IF Len(p) = 0 THEN Root ELSE SubSeq(p, 1, Len(p) - 1)

\* path.substring(0, path.lastIndexOf('/')) || '/'
ParentDir(path) == Dirname(path)

(***************************************************************************)
(* Remote directory trees.                                                 *)
(***************************************************************************)
None == [k |-> "none", c |-> <<>>]
Dir == [k |-> "dir", c |-> <<>>]
File(bytes) == [k |-> "file", c |-> bytes]

EmptyFS == [p \in Paths |-> IF p = Root THEN Dir ELSE None]

Exists(fs, p) == p \in Paths /\ fs[p].k # "none"
IsDir(fs, p) == p \in Paths /\ fs[p].k = "dir"
IsFile(fs, p) == p \in Paths /\ fs[p].k = "file"
Children(fs, p) == {q \in Paths : Len(q) = Len(p) + 1 /\ IsPrefix(p, q) /\ fs[q].k # "none"}

\* every entry lives in a directory
WellFormedFS(fs) ==
    /\ fs[Root] = Dir
    /\ \A p \in Paths : (p # Root /\ fs[p].k # "none") => fs[Dirname(p)].k = "dir"

(***************************************************************************)
(* Base64.  Text is a sequence of symbols: 0..63 the alphabet, Pad "=",    *)
(* Newline the line feed the base64 and echo commands append.              *)
(***************************************************************************)
Pad == 64
Newline == 65

EncodeGroup(g) ==
    IF Len(g) = 3 THEN
        << g[1] \div 4, (g[1] % 4) * 16 + (g[2] \div 16),
           (g[2] % 16) * 4 + (g[3] \div 64), g[3] % 64 >>
    ELSE IF Len(g) = 2 THEN
        << g[1] \div 4, (g[1] % 4) * 16 + (g[2] \div 16), (g[2] % 16) * 4, Pad >>
    ELSE
        << g[1] \div 4, (g[1] % 4) * 16, Pad, Pad >>

RECURSIVE Base64Encode(_)
Base64Encode(bytes) ==
    IF Len(bytes) = 0 THEN <<>>
    ELSE IF Len(bytes) <= 3 THEN EncodeGroup(bytes)
    ELSE EncodeGroup(SubSeq(bytes, 1, 3)) \o Base64Encode(SubSeq(bytes, 4, Len(bytes)))

DecodeGroup(g) ==
    IF g[3] = Pad THEN
        << g[1] * 4 + (g[2] \div 16) >>
    ELSE IF g[4] = Pad THEN
        << g[1] * 4 + (g[2] \div 16), (g[2] % 16) * 16 + (g[3] \div 4) >>
    ELSE
        << g[1] * 4 + (g[2] \div 16), (g[2] % 16) * 16 + (g[3] \div 4),
           (g[3] % 4) * 64 + g[4] >>

RECURSIVE Base64Decode(_)
Base64Decode(text) ==
    IF Len(text) < 4 THEN <<>>
    ELSE DecodeGroup(SubSeq(text, 1, 4)) \o Base64Decode(SubSeq(text, 5, Len(text)))

\* .replace(/\s/g, '')
RECURSIVE StripWhitespace(_)
StripWhitespace(text) ==
    IF Len(text) = 0 THEN <<>>
    ELSE IF text[1] = Newline THEN StripWhitespace(Tail(text))
    ELSE <<text[1]>> \o StripWhitespace(Tail(text))

\* Buffer.from(content).toString('base64')
BufferToBase64(content) == Base64Encode(content)

\* atob(base64Content), then one byte per character
Atob(base64Content) == Base64Decode(base64Content)

(***************************************************************************)
(* The remote shell.  Each operator is one command string of the source,   *)
(* run on the tree fs; it yields the tree afterwards, stdout and stderr    *)
(* ("" when the command succeeded).  2>/dev/null empties stderr.           *)
(***************************************************************************)
Out(fs, out, err) == [fs |-> fs, out |-> out, err |-> err]

\* %F of stat
TypeStr(fs, p) ==
    IF IsDir(fs, p) THEN "directory"
    ELSE IF Len(fs[p].c) = 0 THEN "regular empty file" ELSE "regular file"

\* stat -c '%F|%s|%Y|%X' "${path}" 2>/dev/null || echo "NOTFOUND"
\* stdout, trimmed and split at '|' (the two time fields are left out)
ShStat(fs, path) ==
    IF Exists(fs, path)
    THEN Out(fs, <<TypeStr(fs, path), IF IsDir(fs, path) THEN 4096 ELSE Len(fs[path].c)>>, "")
    ELSE Out(fs, <<"NOTFOUND">>, "")

\* ls -1ApL "${path}" 2>/dev/null : one line per entry, a "/" after a directory
ShLs(fs, path) ==
    IF IsDir(fs, path) THEN
        LET kids == SelectSeq(NameOrder, LAMBDA c : Exists(fs, Append(path, c)))
        IN  Out(fs, [i \in 1..Len(kids) |->
                       [name |-> <<kids[i]>>,
                        ind |-> IF IsDir(fs, Append(path, kids[i])) THEN "/" ELSE ""]], "")
    ELSE IF IsFile(fs, path) THEN Out(fs, <<[name |-> path, ind |-> ""]>>, "")
    ELSE Out(fs, <<>>, "")

\* base64 "${path}" 2>/dev/null
ShBase64(fs, path) ==
    IF IsFile(fs, path) /\ Len(fs[path].c) > 0
    THEN Out(fs, Base64Encode(fs[path].c) \o <<Newline>>, "")
    ELSE Out(fs, <<>>, "")

\* test -e in the place of test -f
ShTestFAnyEntry(fs, path) == Out(fs, IF Exists(fs, path) THEN "EXISTS" ELSE "", "")

\* test -f "${path}" && echo EXISTS
ShTestF(fs, path) == Out(fs, IF IsFile(fs, path) THEN "EXISTS" ELSE "", "")

\* test -e "${path}" && echo EXISTS || echo NOTEXISTS
ShTestEElse(fs, path) == Out(fs, IF Exists(fs, path) THEN "EXISTS" ELSE "NOTEXISTS", "")

\* test -e "${newPath}" && echo EXISTS
ShTestE(fs, path) == Out(fs, IF Exists(fs, path) THEN "EXISTS" ELSE "", "")

\* mkdir -p "${path}" : creates the missing directories from the root down
RECURSIVE MkdirFrom(_, _, _)
MkdirFrom(fs, path, i) ==
    IF i > Len(path) THEN Out(fs, "", "")
    ELSE LET pre == SubSeq(path, 1, i)
         IN  IF fs[pre].k = "dir" THEN MkdirFrom(fs, path, i + 1)
             ELSE IF fs[pre].k = "file" THEN
                 Out(fs, "", IF i = Len(path) THEN "mkdir: cannot create directory: File exists"
                                              ELSE "mkdir: cannot create directory: Not a directory")
             ELSE MkdirFrom([fs EXCEPT ![pre] = Dir], path, i + 1)

ShMkdirP(fs, path) == MkdirFrom(fs, path, 1)

\* the redirect >> in the place of >
ShWriteAppend(fs, base64Content, path) ==
    IF IsDir(fs, path) THEN Out(fs, "", "sh: Is a directory")
    ELSE IF ~IsDir(fs, Dirname(path)) THEN Out(fs, "", "sh: No such file or directory")
    ELSE Out([fs EXCEPT ![path] =
                 File(fs[path].c \o
                      Base64Decode(SelectSeq(base64Content \o <<Newline>>, LAMBDA x : x # Newline)))],
             "", "")

\* echo "${base64Content}" | base64 -d > "${path}"
ShWrite(fs, base64Content, path) ==
    IF IsDir(fs, path) THEN Out(fs, "", "sh: Is a directory")
    ELSE IF ~IsDir(fs, Dirname(path)) THEN Out(fs, "", "sh: No such file or directory")
    ELSE Out([fs EXCEPT ![path] =
                 File(Base64Decode(SelectSeq(base64Content \o <<Newline>>, LAMBDA x : x # Newline)))],
             "", "")

\* rm -f "${path}" and rm -rf "${path}"
ShRm(fs, flags, path) ==
    IF ~Exists(fs, path) THEN Out(fs, "", "")
    ELSE IF IsFile(fs, path) THEN Out([fs EXCEPT ![path] = None], "", "")
    ELSE IF flags = "-f" THEN Out(fs, "", "rm: cannot remove: Is a directory")
    ELSE IF path = Root THEN Out(fs, "", "rm: it is dangerous to operate recursively on '/'")
    ELSE Out([q \in Paths |-> IF IsPrefix(path, q) THEN None ELSE fs[q]], "", "")

\* mv "${oldPath}" "${newPath}"
ShMv(fs, oldPath, newPath) ==
    IF oldPath = Root \/ ~Exists(fs, oldPath)
    THEN Out(fs, "", "mv: cannot stat: No such file or directory")
    ELSE
    LET target == IF IsDir(fs, newPath) THEN Append(newPath, Basename(oldPath)) ELSE newPath
        moved(q) == oldPath \o SubSeq(q, Len(target) + 1, Len(q))
    IN  IF Len(target) > MaxDepth
            \/ \E q \in Paths : /\ IsPrefix(oldPath, q) /\ Exists(fs, q)
                                /\ Len(target) + Len(q) - Len(oldPath) > MaxDepth
        THEN Out(fs, "", "mv: cannot move: File name too long")
        ELSE IF target = oldPath THEN Out(fs, "", "mv: are the same file")
        ELSE IF IsDir(fs, oldPath) /\ IsPrefix(oldPath, target)
        THEN Out(fs, "", "mv: cannot move to a subdirectory of itself")
        ELSE IF ~IsDir(fs, Dirname(target))
        THEN Out(fs, "", "mv: cannot move: No such file or directory")
        ELSE IF IsDir(fs, target) /\ IsFile(fs, oldPath)
        THEN Out(fs, "", "mv: cannot overwrite directory with non-directory")
        ELSE IF IsFile(fs, target) /\ IsDir(fs, oldPath)
        THEN Out(fs, "", "mv: cannot overwrite non-directory with directory")
        ELSE IF IsDir(fs, target) /\ Children(fs, target) # {}
        THEN Out(fs, "", "mv: cannot move: Directory not empty")
        ELSE Out([q \in Paths |->
                    IF IsPrefix(target, q)
                    THEN (IF moved(q) \in Paths THEN fs[moved(q)] ELSE None)
                    ELSE IF IsPrefix(oldPath, q) THEN None ELSE fs[q]], "", "")

(***************************************************************************)
(* Command strings.  A text is a sequence of symbols: the characters of a  *)
(* path one by one, the fixed words of a command each as one symbol.       *)
(***************************************************************************)
MaxPathLen == 3

Sp == " "
DQuote == "\""
SQuote == "'"
Backtick == "<backtick>"
Dollar == "$"

\* the characters of the modelled paths
PathChars == {"/", "d", DQuote, Dollar, Backtick, ";"}

RECURSIVE TextsUpTo(_)
TextsUpTo(n) ==
    IF n = 0 THEN {<<>>}
    ELSE LET shorter == TextsUpTo(n - 1)
         IN  shorter \cup {Append(t, c) : t \in {u \in shorter : Len(u) = n - 1}, c \in PathChars}

\* uri.path: absolute, so it starts with "/"
RawPaths == {<<"/">> \o t : t \in TextsUpTo(MaxPathLen - 1)}
RawNewPaths == {<<"/", "d">>, <<"/", DQuote>>, <<"/", Dollar, "d">>}

\* path.substring(0, path.lastIndexOf('/')) || '/'
ParentDirText(path) ==
    LET last == CHOOSE i \in 1..Len(path) :
                    path[i] = "/" /\ \A j \in (i + 1)..Len(path) : path[j] # "/"
        cut == SubSeq(path, 1, last - 1)
    IN  IF cut = <<>> THEN <<"/">> ELSE cut

\* "${text}" inside a template literal
Interpolated(text) == <<DQuote>> \o text \o <<DQuote>>

\* the command strings of the operations; other is newPath for mv, the flags
\* for rm, the encoded content for the write
CommandText(cmd, path, other) ==
    CASE cmd = "stat" ->
            <<"stat", Sp, "-c", Sp, SQuote, "%F|%s|%Y|%X", SQuote, Sp>> \o Interpolated(path)
                \o <<Sp, "2>/dev/null", Sp, "||", Sp, "echo", Sp, DQuote, "NOTFOUND", DQuote>>
      [] cmd = "ls" ->
            <<"ls", Sp, "-1ApL", Sp>> \o Interpolated(path) \o <<Sp, "2>/dev/null">>
      [] cmd = "base64" ->
            <<"base64", Sp>> \o Interpolated(path) \o <<Sp, "2>/dev/null">>
      [] cmd = "test-f" ->
            <<"test", Sp, "-f", Sp>> \o Interpolated(path) \o <<Sp, "&&", Sp, "echo", Sp, "EXISTS">>
      [] cmd = "test-e" ->
            <<"test", Sp, "-e", Sp>> \o Interpolated(path)
                \o <<Sp, "&&", Sp, "echo", Sp, "EXISTS", Sp, "||", Sp, "echo", Sp, "NOTEXISTS">>
      [] cmd \in {"mkdir-parent", "mkdir"} ->
            <<"mkdir", Sp, "-p", Sp>> \o Interpolated(path)
      [] cmd = "write" ->
            <<"echo", Sp>> \o Interpolated(other)
                \o <<Sp, "|", Sp, "base64", Sp, "-d", Sp, ">", Sp>> \o Interpolated(path)
      [] cmd = "rm" ->
            <<"rm", Sp>> \o other \o <<Sp>> \o Interpolated(path)
      [] cmd = "test-e-new" ->
            <<"test", Sp, "-e", Sp>> \o Interpolated(path) \o <<Sp, "&&", Sp, "echo", Sp, "EXISTS">>
      [] cmd = "mv" ->
            <<"mv", Sp>> \o Interpolated(path) \o <<Sp>> \o Interpolated(other)

CmdNames == {"stat", "ls", "base64", "test-f", "test-e", "mkdir-parent", "write", "mkdir",
             "rm", "test-e-new", "mv"}

(***************************************************************************)
(* How the remote shell reads a command string: it splits the text into    *)
(* words and operators.  Between double quotes a double quote ends the     *)
(* quoted part, a backtick starts a command substitution up to the next    *)
(* backtick, and a dollar sign before a name starts a parameter expansion; *)
(* between single quotes every character is literal.  ParamSubst and       *)
(* CmdSubst stand in a word for what the shell puts there.                 *)
(***************************************************************************)
Operators == {";", "|", "||", "&&", ">", "2>/dev/null"}
NameStart == {"d", Dollar}
ParamSubst == "<parameter expansion>"
CmdSubst == "<command substitution>"

Word(chars) == [op |-> FALSE, w |-> chars]
Operator(c) == [op |-> TRUE, w |-> <<c>>]

Expands(text, i) == text[i] = Dollar /\ i < Len(text) /\ text[i + 1] \in NameStart

RECURSIVE Lex(_, _, _, _, _, _)
Lex(text, i, mode, cur, inWord, out) ==
    LET flush == IF inWord THEN Append(out, Word(cur)) ELSE out
    IN  IF i > Len(text) THEN [tokens |-> flush, open |-> mode # "plain"]
        ELSE LET c == text[i]
             IN  CASE mode = "plain" ->
                        IF c = Sp THEN Lex(text, i + 1, "plain", <<>>, FALSE, flush)
                        ELSE IF c \in Operators
                        THEN Lex(text, i + 1, "plain", <<>>, FALSE, Append(flush, Operator(c)))
                        ELSE IF c = DQuote THEN Lex(text, i + 1, "dq", cur, TRUE, out)
                        ELSE IF c = SQuote THEN Lex(text, i + 1, "sq", cur, TRUE, out)
                        ELSE IF c = Backtick
                        THEN Lex(text, i + 1, "bq", Append(cur, CmdSubst), TRUE, out)
                        ELSE IF Expands(text, i)
                        THEN Lex(text, i + 1, "plain", Append(cur, ParamSubst), TRUE, out)
                        ELSE Lex(text, i + 1, "plain", Append(cur, c), TRUE, out)
                   [] mode = "dq" ->
                        IF c = DQuote THEN Lex(text, i + 1, "plain", cur, TRUE, out)
                        ELSE IF c = Backtick
                        THEN Lex(text, i + 1, "dq-bq", Append(cur, CmdSubst), TRUE, out)
                        ELSE IF Expands(text, i)
                        THEN Lex(text, i + 1, "dq", Append(cur, ParamSubst), TRUE, out)
                        ELSE Lex(text, i + 1, "dq", Append(cur, c), TRUE, out)
                   [] mode = "sq" ->
                        IF c = SQuote THEN Lex(text, i + 1, "plain", cur, TRUE, out)
                        ELSE Lex(text, i + 1, "sq", Append(cur, c), TRUE, out)
                   [] mode = "bq" ->
                        Lex(text, i + 1, IF c = Backtick THEN "plain" ELSE "bq", cur, TRUE, out)
                   [] mode = "dq-bq" ->
                        Lex(text, i + 1, IF c = Backtick THEN "dq" ELSE "dq-bq", cur, TRUE, out)

\* the words and operators of a command string; open when a quote or a
\* substitution is not closed, which the shell rejects
ShParse(text) == Lex(text, 1, "plain", <<>>, FALSE, <<>>)

NoCommand == [cmd |-> "", path |-> <<>>, other |-> <<>>, text |-> <<>>,
              parse |-> [tokens |-> <<>>, open |-> FALSE]]

(***************************************************************************)
(* The provider.                                                           *)
(***************************************************************************)
Procs == 1..NumProcs

\* the paths and locators the operations are called with
EmptyPath == <<"">>
OpPaths == {<<"d">>, <<"g">>, <<"d", "g">>, <<"d", "g", "d">>}
Uris == {[authority |-> "box1", path |-> p] : p \in OpPaths}
            \cup {[authority |-> "box2", path |-> <<"d">>]}
Contents == {<<>>, <<0, 104, 255, 7>>}

\* the locators of the callers that run concurrently
ConcUris == {[authority |-> "box1", path |-> p] : p \in {<<"d">>, <<"d", "g">>}}

\* the trees the sprites may hold when the provider is constructed
InitTrees ==
    { EmptyFS,
      [EmptyFS EXCEPT ![<<"d">>] = File(<<0>>)],
      [EmptyFS EXCEPT ![<<"d">>] = Dir, ![<<"d", "g">>] = File(<<104, 105>>),
                      ![<<"g">>] = File(<<>>)] }

NoUri == [authority |-> "", path |-> Root]
\* a handle: the client that made it, its sprite name, and which call of
\* client.sprite(name) returned it (two calls return two objects)
NoHandle == [client |-> 0, name |-> "", n |-> 0]

VARIABLES
    client,        \* this.client: 0 is null, n > 0 the client bound by the n-th setClient
    spriteCache,   \* this.spriteCache: sprite name -> handle, NoHandle when absent
    remote,        \* the directory tree of every sprite
    procs,         \* the operations called on the provider, one per caller
    sessions,      \* number of setClient calls so far
    factoryCalls,  \* how often client.sprite(name) was called, per client and name
    issued         \* the text of a command handed to sprite.exec, as the remote shell reads it

vars == <<client, spriteCache, remote, procs, sessions, factoryCalls, issued>>

\* One call.  pc is "idle" before the call, the command awaited while the
\* operation runs, "done" when it has returned or thrown.  The fields after
\* events record what happened: this.client at the call, whether sprite.exec
\* rejected, how many commands resolved, the sprite's tree when the first
\* command ran and when the operation ended, and whether a command of this
\* operation changed the tree.
Idle == [pc |-> "idle", op |-> "", uri |-> NoUri, newUri |-> NoUri,
         create |-> FALSE, overwrite |-> FALSE, recursive |-> FALSE, content |-> <<>>,
         sprite |-> NoHandle, exists |-> FALSE, cmds |-> <<>>,
         result |-> "", value |-> <<>>, events |-> <<>>,
         session |-> 0, rejected |-> FALSE, ran |-> 0,
         before |-> EmptyFS, after |-> EmptyFS, changed |-> FALSE]

Init ==
    /\ client = 0
    /\ spriteCache = [s \in Sprites |-> NoHandle]
    /\ remote \in [Sprites -> InitTrees]
    /\ remote["box2"] = [EmptyFS EXCEPT ![<<"d">>] = File(<<0>>)]
    /\ procs = [p \in Procs |-> Idle]
    /\ sessions = 0
    /\ factoryCalls = [k \in (1..MaxSessions) \X Sprites |-> 0]
    /\ issued = NoCommand

\* setClient(client)
SetClient ==
    /\ sessions < MaxSessions
    /\ sessions' = sessions + 1
    /\ client' = sessions + 1
    /\ spriteCache' = [s \in Sprites |-> NoHandle]
    /\ UNCHANGED <<remote, procs, factoryCalls, issued>>

\* getSprite without the check of this.client
GetSpriteUnchecked(spriteName) ==
    IF spriteCache[spriteName] # NoHandle
    THEN [err |-> FALSE, sprite |-> spriteCache[spriteName], cache |-> spriteCache, made |-> FALSE]
    ELSE LET sprite == [client |-> client, name |-> spriteName, n |-> 1]
         IN  [err |-> FALSE, sprite |-> sprite,
              cache |-> [spriteCache EXCEPT ![spriteName] = sprite], made |-> FALSE]

\* getSprite that asks the client for a handle at every call
GetSpriteNoCache(spriteName) ==
    IF client = 0
    THEN [err |-> TRUE, sprite |-> NoHandle, cache |-> spriteCache, made |-> FALSE]
    ELSE LET sprite == [client |-> client, name |-> spriteName,
                        n |-> factoryCalls[<<client, spriteName>>] + 1]
         IN  [err |-> FALSE, sprite |-> sprite, cache |-> spriteCache, made |-> TRUE]

\* getSprite(spriteName): the handle, the cache afterwards, and whether
\* client.sprite was called; err when it throws Unavailable
GetSprite(spriteName) ==
    IF client = 0
    THEN [err |-> TRUE, sprite |-> NoHandle, cache |-> spriteCache, made |-> FALSE]
    ELSE IF spriteCache[spriteName] # NoHandle
    THEN [err |-> FALSE, sprite |-> spriteCache[spriteName], cache |-> spriteCache, made |-> FALSE]
    ELSE LET sprite == [client |-> client, name |-> spriteName,
                        n |-> factoryCalls[<<client, spriteName>>] + 1]
         IN  [err |-> FALSE, sprite |-> sprite,
              cache |-> [spriteCache EXCEPT ![spriteName] = sprite], made |-> TRUE]

\* parseUri(uri)
ParseUri(uri) ==
    [spriteName |-> uri.authority,
     path |-> IF uri.path = EmptyPath THEN Root ELSE uri.path]

PathOf(p) == ParseUri(procs[p].uri).path
NewPathOf(p) == ParseUri(procs[p].newUri).path

\* one sprite.exec call: the command, the handle it runs on, this.client when issued
Cmd(cmd, sprite) == [cmd |-> cmd, sprite |-> sprite, client |-> client]

\* an operation called with the fields of rec: getSprite, then its first command
Start(p, rec, cmd) ==
    LET g == GetSprite(ParseUri(rec.uri).spriteName)
    IN  /\ procs[p].pc = "idle"
        /\ spriteCache' = g.cache
        /\ factoryCalls' =
              IF g.made
              THEN [factoryCalls EXCEPT ![<<client, ParseUri(rec.uri).spriteName>>] = @ + 1]
              ELSE factoryCalls
        /\ IF g.err
           THEN procs' = [procs EXCEPT ![p] =
                            [rec EXCEPT !.pc = "done", !.result = "Unavailable",
                                        !.session = client]]
           ELSE procs' = [procs EXCEPT ![p] =
                            [rec EXCEPT !.pc = cmd, !.sprite = g.sprite,
                                        !.cmds = <<Cmd(cmd, g.sprite)>>,
                                        !.session = client]]
        /\ UNCHANGED <<client, remote, sessions, issued>>

\* the tree the pending command of p runs on
Tree(p) == remote[procs[p].sprite.name]

\* what a resolved command leaves in the record of p
Resolved(rec, fs, tree) ==
    [rec EXCEPT !.ran = @ + 1,
                !.before = IF rec.ran = 0 THEN tree ELSE @,
                !.changed = @ \/ fs # tree]

\* the operation of p ends: it throws err, or returns value after firing events
Throw(p, err, fs) ==
    /\ procs' = [procs EXCEPT ![p] =
                   [Resolved(procs[p], fs, Tree(p)) EXCEPT
                       !.pc = "done", !.result = err, !.after = fs]]
    /\ remote' = [remote EXCEPT ![procs[p].sprite.name] = fs]
    /\ UNCHANGED <<client, spriteCache, sessions, factoryCalls, issued>>

Return(p, value, events, fs) ==
    /\ procs' = [procs EXCEPT ![p] =
                   [Resolved(procs[p], fs, Tree(p)) EXCEPT
                       !.pc = "done", !.result = "ok", !.value = value,
                       !.events = events, !.after = fs]]
    /\ remote' = [remote EXCEPT ![procs[p].sprite.name] = fs]
    /\ UNCHANGED <<client, spriteCache, sessions, factoryCalls, issued>>

\* the operation of p goes on: it issues cmd and awaits it
Await(p, cmd, exists, fs) ==
    /\ procs' = [procs EXCEPT ![p] =
                   [Resolved(procs[p], fs, Tree(p)) EXCEPT
                       !.pc = cmd, !.exists = exists,
                       !.cmds = Append(@, Cmd(cmd, procs[p].sprite))]]
    /\ remote' = [remote EXCEPT ![procs[p].sprite.name] = fs]
    /\ UNCHANGED <<client, spriteCache, sessions, factoryCalls, issued>>

\* sprite.exec rejects and the catch block swallows the error
TransportFailsSwallowed(p) ==
    /\ procs' = [procs EXCEPT ![p].pc = "done", ![p].result = "ok",
                              ![p].rejected = TRUE, ![p].after = Tree(p)]
    /\ UNCHANGED <<client, spriteCache, remote, sessions, factoryCalls, issued>>

\* sprite.exec rejects; the catch block turns the error into Unavailable
TransportFails(p) ==
    /\ procs' = [procs EXCEPT ![p].pc = "done", ![p].result = "Unavailable",
                              ![p].rejected = TRUE, ![p].after = Tree(p)]
    /\ UNCHANGED <<client, spriteCache, remote, sessions, factoryCalls, issued>>

(***************************************************************************)
(* watch: returns a Disposable that does nothing; it reads neither the     *)
(* locator nor this.client                                                 *)
(***************************************************************************)
Watch(p, uri) ==
    /\ procs[p].pc = "idle"
    /\ procs' = [procs EXCEPT ![p] =
                   [Idle EXCEPT !.op = "watch", !.uri = uri, !.pc = "done",
                                !.result = "ok", !.session = client]]
    /\ UNCHANGED <<client, spriteCache, remote, sessions, factoryCalls, issued>>

(***************************************************************************)
(* stat                                                                    *)
(***************************************************************************)
Stat(p, uri) ==
    Start(p, [Idle EXCEPT !.op = "stat", !.uri = uri], "stat")

\* typeStr.includes('directory'), 'regular' or 'file', 'symbolic link'
FileTypeOf(typeStr) ==
    IF typeStr = "directory" THEN "Directory"
    ELSE IF typeStr \in {"regular file", "regular empty file"} THEN "File"
    ELSE IF typeStr = "symbolic link" THEN "SymbolicLink"
    ELSE "Unknown"

\* only the empty output taken for a missing path
IsNotFoundEmptyOnly(output) == output = <<>>

\* output === 'NOTFOUND' || !output
IsNotFound(output) == output = <<"NOTFOUND">> \/ output = <<>>

\* stat that issues its command a second time when the first is rejected
StatResumeRetry(p) ==
    /\ procs[p].pc = "stat"
    /\ \/ IF Len(procs[p].cmds) < 2
          THEN /\ procs' = [procs EXCEPT ![p].cmds = Append(@, Cmd("stat", procs[p].sprite))]
               /\ UNCHANGED <<client, spriteCache, remote, sessions, factoryCalls, issued>>
          ELSE TransportFails(p)
       \/ LET result == ShStat(Tree(p), PathOf(p))
              output == result.out
          IN  IF IsNotFound(output)
              THEN Throw(p, "FileNotFound", result.fs)
              ELSE Return(p, [type |-> FileTypeOf(output[1]),
                              size |-> IF Len(output) >= 2 THEN output[2] ELSE 0],
                          <<>>, result.fs)

StatResume(p) ==
    /\ procs[p].pc = "stat"
    /\ \/ TransportFails(p)
       \/ LET result == ShStat(Tree(p), PathOf(p))
              output == result.out
          IN  IF IsNotFound(output)
              THEN Throw(p, "FileNotFound", result.fs)
              ELSE Return(p, [type |-> FileTypeOf(output[1]),
                              size |-> IF Len(output) >= 2 THEN output[2] ELSE 0],
                          <<>>, result.fs)

(***************************************************************************)
(* readDirectory                                                           *)
(***************************************************************************)
ReadDirectory(p, uri) ==
    Start(p, [Idle EXCEPT !.op = "readDirectory", !.uri = uri], "ls")

\* one line of the listing: the indicator is cut off and gives the type
EntryOf(line) ==
    [name |-> line.name, type |-> IF line.ind = "/" THEN "Directory" ELSE "File"]

ReadDirectoryResume(p) ==
    /\ procs[p].pc = "ls"
    /\ \/ TransportFails(p)
       \/ LET result == ShLs(Tree(p), PathOf(p))
              output == result.out
          IN  Return(p, [i \in 1..Len(output) |-> EntryOf(output[i])], <<>>, result.fs)

(***************************************************************************)
(* readFile                                                                *)
(***************************************************************************)
ReadFile(p, uri) ==
    Start(p, [Idle EXCEPT !.op = "readFile", !.uri = uri], "base64")

ReadFileResume(p) ==
    /\ procs[p].pc = "base64"
    /\ \/ TransportFails(p)
       \/ LET result == ShBase64(Tree(p), PathOf(p))
              base64Content == StripWhitespace(result.out)
          IN  IF base64Content = <<>>
              THEN Await(p, "test-f", FALSE, result.fs)
              ELSE Return(p, Atob(base64Content), <<>>, result.fs)

ReadFileCheckResume(p) ==
    /\ procs[p].pc = "test-f"
    /\ \/ TransportFails(p)
       \/ LET checkResult == ShTestF(Tree(p), PathOf(p))
          IN  IF checkResult.out = "EXISTS"
              THEN Return(p, <<>>, <<>>, checkResult.fs)
              ELSE Throw(p, "FileNotFound", checkResult.fs)

(***************************************************************************)
(* writeFile                                                               *)
(***************************************************************************)
WriteFile(p, uri, content, create, overwrite) ==
    Start(p, [Idle EXCEPT !.op = "writeFile", !.uri = uri, !.content = content,
                          !.create = create, !.overwrite = overwrite], "test-e")

\* the two refusals with their conditions exchanged
WriteRefusalSwapped(exists, create, overwrite) ==
    IF exists /\ ~create THEN "FileExists"
    ELSE IF ~exists /\ ~overwrite THEN "FileNotFound"
    ELSE ""

\* the error writeFile throws after the existence check, "" when it goes on
WriteRefusal(exists, create, overwrite) ==
    IF exists /\ ~overwrite THEN "FileExists"
    ELSE IF ~exists /\ ~create THEN "FileNotFound"
    ELSE ""

\* writeFile that issues the parent-directory creation and the write together,
\* awaiting neither before the other
WriteFileExistsResumeFanOut(p) ==
    /\ procs[p].pc = "test-e"
    /\ \/ TransportFails(p)
       \/ LET existsResult == ShTestEElse(Tree(p), PathOf(p))
              exists == existsResult.out = "EXISTS"
              refusal == WriteRefusal(exists, procs[p].create, procs[p].overwrite)
          IN  IF refusal # ""
              THEN Throw(p, refusal, existsResult.fs)
              ELSE /\ procs' = [procs EXCEPT ![p] =
                                  [Resolved(procs[p], existsResult.fs, Tree(p)) EXCEPT
                                      !.pc = "write", !.exists = exists,
                                      !.cmds = @ \o <<Cmd("mkdir-parent", procs[p].sprite),
                                                      Cmd("write", procs[p].sprite)>>]]
                   /\ remote' = [remote EXCEPT ![procs[p].sprite.name] = existsResult.fs]
                   /\ UNCHANGED <<client, spriteCache, sessions, factoryCalls, issued>>

WriteFileExistsResume(p) ==
    /\ procs[p].pc = "test-e"
    /\ \/ TransportFails(p)
       \/ LET existsResult == ShTestEElse(Tree(p), PathOf(p))
              exists == existsResult.out = "EXISTS"
              refusal == WriteRefusal(exists, procs[p].create, procs[p].overwrite)
          IN  IF refusal # ""
              THEN Throw(p, refusal, existsResult.fs)
              ELSE Await(p, "mkdir-parent", exists, existsResult.fs)

WriteFileMkdirResume(p) ==
    /\ procs[p].pc = "mkdir-parent"
    /\ \/ TransportFails(p)
       \/ LET result == ShMkdirP(Tree(p), ParentDir(PathOf(p)))
          IN  Await(p, "write", procs[p].exists, result.fs)

\* exists ? Changed : Created
WriteEventType(exists) == IF exists THEN "Changed" ELSE "Created"

\* writeFile that undoes its earlier steps when the write is rejected
WriteFileWriteResumeRollback(p) ==
    /\ procs[p].pc = "write"
    /\ \/ /\ procs' = [procs EXCEPT ![p].pc = "done", ![p].result = "Unavailable",
                                     ![p].rejected = TRUE, ![p].after = procs[p].before,
                                     ![p].cmds = Append(@, Cmd("rm", procs[p].sprite))]
          /\ remote' = [remote EXCEPT ![procs[p].sprite.name] = procs[p].before]
          /\ UNCHANGED <<client, spriteCache, sessions, factoryCalls, issued>>
       \/ LET result == ShWrite(Tree(p), BufferToBase64(procs[p].content), PathOf(p))
          IN  Return(p, <<>>,
                     <<[type |-> WriteEventType(procs[p].exists), uri |-> procs[p].uri]>>,
                     result.fs)

WriteFileWriteResume(p) ==
    /\ procs[p].pc = "write"
    /\ \/ TransportFails(p)
       \/ LET result == ShWrite(Tree(p), BufferToBase64(procs[p].content), PathOf(p))
          IN  Return(p, <<>>,
                     <<[type |-> WriteEventType(procs[p].exists), uri |-> procs[p].uri]>>,
                     result.fs)

(***************************************************************************)
(* createDirectory                                                         *)
(***************************************************************************)
CreateDirectory(p, uri) ==
    Start(p, [Idle EXCEPT !.op = "createDirectory", !.uri = uri], "mkdir")

\* any output on stderr taken for an error
IncludesErrorAny(stderr) == stderr # ""

\* toStr(result.stderr).includes('error'): of the messages of mkdir only
\* "Input/output error" holds the word
IncludesError(stderr) == stderr = "mkdir: cannot create directory: Input/output error"

CreateDirectoryResume(p) ==
    /\ procs[p].pc = "mkdir"
    /\ \/ TransportFails(p)
       \/ LET result == ShMkdirP(Tree(p), PathOf(p))
          IN  IF result.err # "" /\ IncludesError(result.err)
              THEN Throw(p, "Unavailable", result.fs)
              ELSE Return(p, <<>>, <<[type |-> "Created", uri |-> procs[p].uri]>>, result.fs)

(***************************************************************************)
(* delete                                                                  *)
(***************************************************************************)
Delete(p, uri, recursive) ==
    Start(p, [Idle EXCEPT !.op = "delete", !.uri = uri, !.recursive = recursive], "rm")

\* options.recursive ? '-rf' : '-f'
RmFlags(recursive) == IF recursive THEN "-rf" ELSE "-f"

\* delete that fires its event before the command is awaited
DeleteResumeFiresEarly(p) ==
    /\ procs[p].pc = "rm"
    /\ \/ /\ procs' = [procs EXCEPT ![p].pc = "done", ![p].result = "Unavailable",
                                     ![p].rejected = TRUE, ![p].after = Tree(p),
                                     ![p].events = <<[type |-> "Deleted", uri |-> procs[p].uri]>>]
          /\ UNCHANGED <<client, spriteCache, remote, sessions, factoryCalls, issued>>
       \/ LET result == ShRm(Tree(p), RmFlags(procs[p].recursive), PathOf(p))
          IN  Return(p, <<>>, <<[type |-> "Deleted", uri |-> procs[p].uri]>>, result.fs)

DeleteResume(p) ==
    /\ procs[p].pc = "rm"
    /\ \/ TransportFails(p)
       \/ LET result == ShRm(Tree(p), RmFlags(procs[p].recursive), PathOf(p))
          IN  Return(p, <<>>, <<[type |-> "Deleted", uri |-> procs[p].uri]>>, result.fs)

(***************************************************************************)
(* rename                                                                  *)
(***************************************************************************)
\* the comparison of the two sprite names left out
DifferentSpritesNever(oldUri, newUri) == FALSE

\* oldSprite !== newSprite
DifferentSprites(oldUri, newUri) ==
    ParseUri(oldUri).spriteName # ParseUri(newUri).spriteName

Rename(p, oldUri, newUri, overwrite) ==
    LET rec == [Idle EXCEPT !.op = "rename", !.uri = oldUri, !.newUri = newUri,
                            !.overwrite = overwrite]
    IN  IF DifferentSprites(oldUri, newUri)
        THEN /\ procs[p].pc = "idle"
             /\ procs' = [procs EXCEPT ![p] =
                            [rec EXCEPT !.pc = "done", !.result = "NoPermissions",
                                        !.session = client]]
             /\ UNCHANGED <<client, spriteCache, remote, sessions, factoryCalls, issued>>
        ELSE Start(p, rec, IF ~overwrite THEN "test-e-new" ELSE "mv")

RenameExistsResume(p) ==
    /\ procs[p].pc = "test-e-new"
    /\ \/ TransportFails(p)
       \/ LET existsResult == ShTestE(Tree(p), NewPathOf(p))
          IN  IF existsResult.out = "EXISTS"
              THEN Throw(p, "FileExists", existsResult.fs)
              ELSE Await(p, "mv", FALSE, existsResult.fs)

\* the two events in the other order
RenameEventsSwapped(oldUri, newUri) ==
    <<[type |-> "Created", uri |-> newUri], [type |-> "Deleted", uri |-> oldUri]>>

\* the two events of a rename
RenameEvents(oldUri, newUri) ==
    <<[type |-> "Deleted", uri |-> oldUri], [type |-> "Created", uri |-> newUri]>>

RenameMvResume(p) ==
    /\ procs[p].pc = "mv"
    /\ \/ TransportFails(p)
       \/ LET result == ShMv(Tree(p), PathOf(p), NewPathOf(p))
          IN  Return(p, <<>>, RenameEvents(procs[p].uri, procs[p].newUri), result.fs)

(***************************************************************************)
(* One command string handed to sprite.exec and read by the remote shell.  *)
(***************************************************************************)
Exec(cmd, path, other) ==
    /\ issued' = [cmd |-> cmd, path |-> path, other |-> other,
                  text |-> CommandText(cmd, path, other),
                  parse |-> ShParse(CommandText(cmd, path, other))]
    /\ UNCHANGED <<client, spriteCache, remote, procs, sessions, factoryCalls>>

(***************************************************************************)
(* The provider and its callers.                                           *)
(***************************************************************************)
\* Caller p calls once, after the callers before it; serial callers wait for
\* the operation in flight to end.
CanCall(p, serial) ==
    /\ procs[p].pc = "idle"
    /\ \A q \in Procs : q < p => procs[q].pc # "idle"
    /\ serial => \A q \in Procs : procs[q].pc \in {"idle", "done"}

\* The session is bound or changed while a caller still has something to do;
\* with serial callers, between two operations.
CanBind(serial) ==
    /\ \E q \in Procs : procs[q].pc # "done"
    /\ serial => \A q \in Procs : procs[q].pc \in {"idle", "done"}

NextWith(U, serial) ==
    \/ CanBind(serial) /\ SetClient
    \/ \E p \in Procs, uri \in U : CanCall(p, serial) /\ Watch(p, uri)
    \/ \E p \in Procs, uri \in U : CanCall(p, serial) /\ Stat(p, uri)
    \/ \E p \in Procs : StatResume(p)
    \/ \E p \in Procs, uri \in U : CanCall(p, serial) /\ ReadDirectory(p, uri)
    \/ \E p \in Procs : ReadDirectoryResume(p)
    \/ \E p \in Procs, uri \in U : CanCall(p, serial) /\ ReadFile(p, uri)
    \/ \E p \in Procs : ReadFileResume(p)
    \/ \E p \in Procs : ReadFileCheckResume(p)
    \/ \E p \in Procs, uri \in U, content \in Contents, create \in BOOLEAN, overwrite \in BOOLEAN :
          CanCall(p, serial) /\ WriteFile(p, uri, content, create, overwrite)
    \/ \E p \in Procs : WriteFileExistsResume(p)
    \/ \E p \in Procs : WriteFileMkdirResume(p)
    \/ \E p \in Procs : WriteFileWriteResume(p)
    \/ \E p \in Procs, uri \in U : CanCall(p, serial) /\ CreateDirectory(p, uri)
    \/ \E p \in Procs : CreateDirectoryResume(p)
    \/ \E p \in Procs, uri \in U, recursive \in BOOLEAN :
          CanCall(p, serial) /\ Delete(p, uri, recursive)
    \/ \E p \in Procs : DeleteResume(p)
    \/ \E p \in Procs, oldUri \in U, newUri \in U, overwrite \in BOOLEAN :
          CanCall(p, serial) /\ Rename(p, oldUri, newUri, overwrite)
    \/ \E p \in Procs : RenameExistsResume(p)
    \/ \E p \in Procs : RenameMvResume(p)

\* callers that call one after the other, with every locator
Next == NextWith(Uris, TRUE)
Spec == Init /\ [][Next]_vars

\* callers whose operations run concurrently
ConcNext == NextWith(ConcUris, FALSE)
ConcSpec == Init /\ [][ConcNext]_vars

\* the command strings of the operations, for every path
ShellNext ==
    \/ \E cmd \in CmdNames \ {"mkdir-parent", "write", "rm", "mv"}, path \in RawPaths :
          Exec(cmd, path, <<>>)
    \/ \E path \in RawPaths : Exec("mkdir-parent", ParentDirText(path), <<>>)
    \/ \E path \in RawPaths, content \in Contents :
          Exec("write", path, <<BufferToBase64(content)>>)
    \/ \E path \in RawPaths, recursive \in BOOLEAN : Exec("rm", path, <<RmFlags(recursive)>>)
    \/ \E oldPath \in RawPaths, newPath \in RawNewPaths : Exec("mv", oldPath, newPath)
ShellInit == Init /\ remote["box1"] = EmptyFS
ShellSpec == ShellInit /\ [][ShellNext]_vars

TypeOK ==
    /\ client \in 0..MaxSessions
    /\ \A s \in Sprites : WellFormedFS(remote[s])
    /\ \A p \in Procs : procs[p].pc = "done" <=> procs[p].result # ""

(***************************************************************************)
(* Properties.  In Spec the callers call one after the other, so the       *)
(* operation of caller p + 1 follows that of caller p with none between.   *)
(***************************************************************************)
Called(p) == procs[p].pc # "idle"
Ended(p) == procs[p].pc = "done"
\* p was called with a session bound and no command of it was rejected
Worked(p) == Ended(p) /\ procs[p].session > 0 /\ ~procs[p].rejected
SameTarget(p) == procs[p].uri.authority = procs[p].newUri.authority
Event(type, uri) == [type |-> type, uri |-> uri]
\* the operations that reach the remote side
RemoteOps == {"stat", "readDirectory", "readFile", "writeFile", "createDirectory",
              "delete", "rename"}

\* C1 as stated: called while no session is bound, every operation (stat,
\* readDirectory, readFile, writeFile, createDirectory, delete, rename) fails
\* with Unavailable, issues no command and emits no event.
C1_AllUnavailable ==
    \A p \in Procs :
        (Called(p) /\ procs[p].op \in RemoteOps /\ procs[p].session = 0) =>
            /\ Ended(p)
            /\ procs[p].result = "Unavailable"
            /\ procs[p].cmds = <<>>
            /\ procs[p].events = <<>>

\* C1 amended: called while no session is bound, an operation issues no
\* command, emits no event and fails with Unavailable, except a rename between
\* two different targets, which fails with NoPermissions.
C1_NoSession ==
    \A p \in Procs :
        (Called(p) /\ procs[p].op \in RemoteOps /\ procs[p].session = 0) =>
            /\ Ended(p)
            /\ procs[p].result =
                  IF procs[p].op = "rename" /\ ~SameTarget(p)
                  THEN "NoPermissions" ELSE "Unavailable"
            /\ procs[p].cmds = <<>>
            /\ procs[p].events = <<>>
            /\ ~procs[p].changed

C1_Witness ==
    \E p, q \in Procs :
        /\ procs[p].session = 0 /\ procs[p].op = "writeFile"
        /\ procs[p].result = "Unavailable"
        /\ procs[q].session = 0 /\ procs[q].op = "rename" /\ SameTarget(q)
        /\ procs[q].result = "Unavailable"

\* C2: a rename whose locators name different targets fails with
\* NoPermissions in the call itself, whatever the paths, overwrite and the
\* state of the provider; it issues no command, emits no event and leaves the
\* handle cache, the handle factory and the remote trees alone.
C2_CrossTargetRename ==
    [][\A p \in Procs :
          (/\ procs[p].pc = "idle"
           /\ procs'[p].op = "rename"
           /\ procs'[p].uri.authority # procs'[p].newUri.authority)
          => /\ procs'[p].pc = "done"
             /\ procs'[p].result = "NoPermissions"
             /\ procs'[p].cmds = <<>>
             /\ procs'[p].events = <<>>
             /\ spriteCache' = spriteCache
             /\ factoryCalls' = factoryCalls
             /\ remote' = remote]_vars

C2_Witness ==
    \E p \in Procs :
        /\ procs[p].op = "rename" /\ ~SameTarget(p)
        /\ procs[p].result = "NoPermissions"
        /\ procs[p].session > 0
        /\ spriteCache[procs[p].uri.authority] # NoHandle

\* C3: when the existence check of writeFile finds the path present and
\* overwrite is false the operation fails with FileExists, when it finds the
\* path absent and create is false it fails with FileNotFound; in both cases
\* the check is the only command issued, no event is emitted and the tree is
\* as before.
C3_WriteRefused ==
    \A p \in Procs :
        (procs[p].op = "writeFile" /\ procs[p].ran >= 1) =>
            LET present == Exists(procs[p].before, procs[p].uri.path)
            IN  ((present /\ ~procs[p].overwrite) \/ (~present /\ ~procs[p].create)) =>
                    /\ Ended(p)
                    /\ procs[p].result = IF present THEN "FileExists" ELSE "FileNotFound"
                    /\ Len(procs[p].cmds) = 1
                    /\ procs[p].cmds[1].cmd = "test-e"
                    /\ procs[p].ran = 1
                    /\ procs[p].events = <<>>
                    /\ ~procs[p].changed
                    /\ procs[p].after = procs[p].before

C3_Witness ==
    \E p, q \in Procs :
        /\ procs[p].op = "writeFile" /\ procs[p].result = "FileExists"
        /\ procs[q].op = "writeFile" /\ procs[q].result = "FileNotFound"

\* C4, its first half: a writeFile that returns has emitted exactly one event,
\* for its locator, Changed if the path was present at the check, else Created.
C4_OneEvent ==
    \A p \in Procs :
        (procs[p].op = "writeFile" /\ procs[p].result = "ok") =>
            procs[p].events =
                <<Event(IF Exists(procs[p].before, procs[p].uri.path)
                        THEN "Changed" ELSE "Created", procs[p].uri)>>

\* C4 as stated: every writeFile that returns has emitted exactly one event for
\* its locator, Changed if the path was present, else Created; and with
\* create, when the path and its parent directory were absent, the parent
\* directory has been created.
C4_OneEventAndParent ==
    /\ C4_OneEvent
    /\ \A p \in Procs :
          (/\ procs[p].op = "writeFile" /\ procs[p].result = "ok" /\ procs[p].create
           /\ ~Exists(procs[p].before, procs[p].uri.path)
           /\ ~Exists(procs[p].before, Dirname(procs[p].uri.path)))
          => /\ IsDir(procs[p].after, Dirname(procs[p].uri.path))
             /\ procs[p].events = <<Event("Created", procs[p].uri)>>

\* C5 as stated: writeFile(p, b, {create: true, overwrite: true}) that returns,
\* followed by readFile(p), gives exactly b.
C5_RoundTrip ==
    \A p \in Procs :
        (/\ p + 1 \in Procs
         /\ procs[p].op = "writeFile" /\ procs[p].create /\ procs[p].overwrite
         /\ procs[p].result = "ok"
         /\ procs[p + 1].op = "readFile" /\ procs[p + 1].uri = procs[p].uri
         /\ Worked(p + 1))
        => /\ procs[p + 1].result = "ok"
           /\ procs[p + 1].value = procs[p].content

\* C6 as stated, for a source a that is present: rename(a, b, {overwrite:
\* false}) on one target fails with FileExists when b is present, changing
\* nothing and emitting nothing; when b is absent it returns, and a stat that
\* follows fails with FileNotFound on a and returns on b.
C6_Rename ==
    \A p \in Procs :
        (/\ procs[p].op = "rename" /\ SameTarget(p) /\ ~procs[p].overwrite
         /\ Worked(p)
         /\ Exists(procs[p].before, procs[p].uri.path))
        => IF Exists(procs[p].before, procs[p].newUri.path)
           THEN /\ procs[p].result = "FileExists"
                /\ ~procs[p].changed
                /\ procs[p].events = <<>>
           ELSE /\ procs[p].result = "ok"
                /\ (/\ p + 1 \in Procs
                    /\ procs[p + 1].op = "stat" /\ Worked(p + 1)
                    /\ procs[p + 1].uri = procs[p].uri)
                   => procs[p + 1].result = "FileNotFound"
                /\ (/\ p + 1 \in Procs
                    /\ procs[p + 1].op = "stat" /\ Worked(p + 1)
                    /\ procs[p + 1].uri = procs[p].newUri)
                   => procs[p + 1].result = "ok"

\* C7: a rename that returns has emitted exactly the Deleted event of the old
\* locator followed by the Created event of the new one, and its last command,
\* the move, has resolved; a rename that has not returned, or has thrown, has
\* emitted nothing.
C7_RenameEvents ==
    \A p \in Procs :
        procs[p].op = "rename" =>
            IF procs[p].result = "ok"
            THEN /\ procs[p].events = <<Event("Deleted", procs[p].uri),
                                        Event("Created", procs[p].newUri)>>
                 /\ procs[p].cmds[Len(procs[p].cmds)].cmd = "mv"
                 /\ procs[p].ran = Len(procs[p].cmds)
            ELSE procs[p].events = <<>>

C7_Witness ==
    \E p, q \in Procs :
        /\ procs[p].op = "rename" /\ procs[p].result = "ok" /\ procs[p].changed
        /\ procs[p].uri # procs[p].newUri
        /\ procs[q].op = "rename" /\ procs[q].result = "FileExists"

\* C8: with a session bound and no command rejected, stat and readFile of a
\* path that is absent fail with FileNotFound and return no value.
C8_NotFound ==
    \A p \in Procs :
        (/\ procs[p].op \in {"stat", "readFile"} /\ Worked(p)
         /\ ~Exists(procs[p].before, procs[p].uri.path))
        => /\ procs[p].result = "FileNotFound"
           /\ procs[p].value = <<>>

C8_Witness ==
    \E p, q \in Procs :
        /\ procs[p].op = "stat" /\ procs[p].result = "FileNotFound"
        /\ procs[q].op = "readFile" /\ procs[q].result = "FileNotFound"
        /\ Len(procs[q].cmds) = 2

C10_DeleteDirectory ==
    \A p \in Procs :
        (/\ procs[p].op = "delete" /\ Worked(p)
         /\ IsDir(procs[p].before, procs[p].uri.path)
         /\ Children(procs[p].before, procs[p].uri.path) # {})
        => IF procs[p].recursive
           THEN /\ procs[p].result = "ok"
                /\ ~Exists(procs[p].after, procs[p].uri.path)
                /\ procs[p].events = <<Event("Deleted", procs[p].uri)>>
           ELSE /\ procs[p].result # "ok"
                /\ procs[p].events = <<>>
                /\ IsDir(procs[p].after, procs[p].uri.path)

InFlight(p) == procs[p].pc \notin {"idle", "done"}
HasHandle(p) == procs[p].sprite # NoHandle

\* C11: within one session, client.sprite is called at most once for each
\* sprite name, and all operations called in that session on that name, one
\* after the other or in flight together, run on the one handle it returned,
\* a handle of the client of that session.
C11_OneHandlePerSession ==
    /\ \A k \in DOMAIN factoryCalls : factoryCalls[k] <= 1
    /\ \A p \in Procs : HasHandle(p) => procs[p].sprite.client = procs[p].session
    /\ \A p, q \in Procs :
          (/\ HasHandle(p) /\ HasHandle(q)
           /\ procs[p].session = procs[q].session
           /\ procs[p].sprite.name = procs[q].sprite.name)
          => procs[p].sprite = procs[q].sprite

C11_Witness ==
    \E p, q \in Procs :
        /\ p # q /\ InFlight(p) /\ InFlight(q)
        /\ procs[p].session = procs[q].session
        /\ procs[p].sprite = procs[q].sprite
        /\ factoryCalls[<<procs[p].session, procs[p].sprite.name>>] = 1

\* C12 as stated: once setClient has bound a new client, every command issued
\* from then on runs on a handle obtained from that client, also the commands
\* of operations that were in flight when setClient was called.
C12_NoStaleHandle ==
    \A p \in Procs :
        \A i \in 1..Len(procs[p].cmds) :
            procs[p].cmds[i].sprite.client = procs[p].cmds[i].client

ReadOnlyOps == {"stat", "readDirectory", "readFile", "watch"}
MutatingOps == {"writeFile", "createDirectory", "delete", "rename"}

\* C13 as stated: stat, readDirectory, readFile and watch emit no event, an
\* operation that ends in an error emits no event, and every emitted event
\* belongs to a writeFile, createDirectory, delete or rename that changed the
\* remote tree and returned.
C13_EventsOnlyOnChange ==
    \A p \in Procs :
        /\ procs[p].op \in ReadOnlyOps => procs[p].events = <<>>
        /\ procs[p].result # "ok" => procs[p].events = <<>>
        /\ procs[p].events # <<>> =>
              /\ procs[p].op \in MutatingOps
              /\ procs[p].result = "ok"
              /\ procs[p].changed

\* C13 amended: stat, readDirectory, readFile and watch emit no event, an
\* operation that ends in an error, or has not ended, emits no event, and
\* every emitted event belongs to a writeFile, createDirectory, delete or
\* rename that returned, all its commands resolved.
C13_EventsOnlyOnSuccess ==
    \A p \in Procs :
        /\ procs[p].op \in ReadOnlyOps => procs[p].events = <<>>
        /\ procs[p].result # "ok" => procs[p].events = <<>>
        /\ procs[p].events # <<>> =>
              /\ procs[p].op \in MutatingOps
              /\ procs[p].result = "ok"
              /\ ~procs[p].rejected
              /\ procs[p].ran = Len(procs[p].cmds)

C13_Witness ==
    \E p, q \in Procs :
        /\ procs[p].op = "createDirectory" /\ procs[p].result = "ok"
        /\ IsDir(procs[p].before, procs[p].uri.path)
        /\ procs[p].events # <<>> /\ ~procs[p].changed
        /\ procs[q].op = "watch" /\ procs[q].result = "ok" /\ procs[q].events = <<>>

\* C14: an operation one of whose commands was rejected by the transport has
\* ended with Unavailable, not with success nor any other error; the rejected
\* command is the last it issued, and it has emitted no event.
C14_TransportFailure ==
    \A p \in Procs :
        procs[p].rejected =>
            /\ Ended(p)
            /\ procs[p].result = "Unavailable"
            /\ Len(procs[p].cmds) = procs[p].ran + 1
            /\ procs[p].events = <<>>

C14_Witness ==
    \E p, q \in Procs :
        /\ procs[p].op = "writeFile" /\ procs[p].rejected /\ Len(procs[p].cmds) = 3
        /\ procs[p].changed
        /\ procs[q].op = "readFile" /\ procs[q].rejected /\ Len(procs[q].cmds) = 2

\* what the shell is meant to read: the words and operators of the command
\* with each path in place as one word
PathMark == <<"{path}">>
OtherMark == <<"{newPath}">>
Intended(cmd, path, other) ==
    LET t == ShParse(CommandText(cmd, PathMark, IF cmd = "mv" THEN OtherMark ELSE other)).tokens
    IN  [i \in 1..Len(t) |->
            IF t[i] = Word(PathMark) THEN Word(path)
            ELSE IF t[i] = Word(OtherMark) THEN Word(other)
            ELSE t[i]]

\* C15 as stated: for every path, also one that holds a double quote, a
\* backtick or a dollar sign, the shell reads the command string of every
\* operation as the intended command with the path as exactly one literal
\* argument.
C15_LiteralArgument ==
    issued # NoCommand =>
        /\ ~issued.parse.open
        /\ issued.parse.tokens = Intended(issued.cmd, issued.path, issued.other)

\* the commands of an operation in the order it issued them
Issued(p) == [i \in 1..Len(procs[p].cmds) |-> procs[p].cmds[i].cmd]
WriteOrder == <<"test-e", "mkdir-parent", "write">>
RenameOrder(overwrite) == IF overwrite THEN <<"mv">> ELSE <<"test-e-new", "mv">>

\* C16: of the commands an operation has issued at most the last has not
\* resolved, so each is issued after the one before it has returned, and an
\* operation in flight awaits exactly that last command; writeFile issues the
\* existence check, the parent-directory creation and the write in this order,
\* rename the existence check (without overwrite) and the move; events are
\* there only once the last command of the order has resolved, and are there
\* when a writeFile or rename has returned.
C16_Sequential ==
    \A p \in Procs :
        /\ procs[p].ran <= Len(procs[p].cmds)
        /\ Len(procs[p].cmds) <= procs[p].ran + 1
        /\ InFlight(p) =>
              /\ Len(procs[p].cmds) = procs[p].ran + 1
              /\ procs[p].cmds[Len(procs[p].cmds)].cmd = procs[p].pc
        /\ procs[p].op = "writeFile" => IsPrefix(Issued(p), WriteOrder)
        /\ procs[p].op = "rename" => IsPrefix(Issued(p), RenameOrder(procs[p].overwrite))
        /\ procs[p].op \in {"writeFile", "rename"} =>
              /\ procs[p].events # <<>> =>
                    /\ procs[p].ran = Len(procs[p].cmds)
                    /\ Issued(p) = IF procs[p].op = "writeFile" THEN WriteOrder
                                   ELSE RenameOrder(procs[p].overwrite)
                    /\ procs[p].result = "ok"
              /\ procs[p].result = "ok" => procs[p].events # <<>>

C16_Witness ==
    \E p, q \in Procs :
        /\ procs[p].op = "writeFile" /\ procs[p].result = "ok"
        /\ Issued(p) = WriteOrder /\ procs[p].ran = 3 /\ procs[p].events # <<>>
        /\ procs[q].op = "rename" /\ ~procs[q].overwrite /\ procs[q].pc = "mv"
        /\ Issued(q) = RenameOrder(FALSE) /\ procs[q].ran = 1 /\ procs[q].events = <<>>

\* the output of the first command of readFile, whitespace removed
FirstOutput(p) == StripWhitespace(ShBase64(procs[p].before, procs[p].uri.path).out)

\* C17: the encoded output of the first command of readFile is empty exactly
\* when the path is not a file with content.  When it is not empty, readFile
\* issues that one command and returns the decoded bytes, the content of the
\* file.  When it is empty, readFile issues the check test -f as its second
\* and last command, and returns no bytes when the path is a file, and fails
\* with FileNotFound otherwise.
C17_ReadFile ==
    \A p \in Procs :
        (procs[p].op = "readFile" /\ procs[p].ran >= 1) =>
            LET fs == procs[p].before
                path == procs[p].uri.path
            IN  /\ FirstOutput(p) = <<>> <=> ~(IsFile(fs, path) /\ fs[path].c # <<>>)
                /\ IF FirstOutput(p) # <<>>
                   THEN /\ Issued(p) = <<"base64">>
                        /\ procs[p].result = "ok"
                        /\ procs[p].value = Atob(FirstOutput(p))
                        /\ procs[p].value = fs[path].c
                   ELSE /\ Issued(p) = <<"base64", "test-f">>
                        /\ (Ended(p) /\ ~procs[p].rejected) =>
                              IF IsFile(fs, path)
                              THEN procs[p].result = "ok" /\ procs[p].value = <<>>
                              ELSE procs[p].result = "FileNotFound"

C17_Witness ==
    \E p, q \in Procs :
        /\ procs[p].op = "readFile" /\ procs[p].result = "ok"
        /\ Len(procs[p].cmds) = 2 /\ procs[p].value = <<>>
        /\ procs[q].op = "readFile" /\ procs[q].result = "ok"
        /\ Len(procs[q].cmds) = 1 /\ Len(procs[q].value) = 2

\* p and q are two writeFile calls with create and without overwrite on one
\* locator, and both made their existence check while the path was absent
RacingWriters(p, q) ==
    /\ p # q
    /\ procs[p].op = "writeFile" /\ procs[q].op = "writeFile"
    /\ procs[p].uri = procs[q].uri
    /\ \A r \in {p, q} :
          /\ procs[r].create /\ ~procs[r].overwrite
          /\ procs[r].ran >= 1
          /\ ~Exists(procs[r].before, procs[r].uri.path)

\* C18: nothing keeps two writers of one path apart.  Two writeFile calls
\* with create and without overwrite that both made their existence check
\* while the path was absent are neither refused: each, unless the transport
\* fails, returns and emits one Created event, each write puts its own content
\* in the place of what was there, and the file ends with the content of the
\* writer that ended last.
C18_BothWritersSucceed ==
    \A p, q \in Procs :
        RacingWriters(p, q) =>
            /\ \A r \in {p, q} :
                  /\ procs[r].pc # "done" \/ procs[r].rejected \/ procs[r].result = "ok"
                  /\ procs[r].result = "ok" =>
                        /\ procs[r].events = <<Event("Created", procs[r].uri)>>
                        /\ IsDir(procs[r].after, Dirname(procs[r].uri.path)) =>
                              procs[r].after[procs[r].uri.path] = File(procs[r].content)
            /\ (procs[p].result = "ok" /\ procs[q].result = "ok") =>
                  remote[procs[p].sprite.name] \in {procs[p].after, procs[q].after}

C18_Witness ==
    \E p, q \in Procs :
        /\ RacingWriters(p, q)
        /\ procs[p].result = "ok" /\ procs[q].result = "ok"
        /\ procs[p].events = <<Event("Created", procs[p].uri)>>
        /\ procs[q].events = <<Event("Created", procs[q].uri)>>
        /\ procs[p].content # procs[q].content
        /\ procs[p].after[procs[p].uri.path] = File(procs[p].content)
        /\ remote[procs[q].sprite.name][procs[q].uri.path] = File(procs[q].content)

\* the write of p, its third command, was issued and failed, after its
\* second command had created the parent directory, absent until then
WriteFailedAfterMkdir(p) ==
    /\ procs[p].op = "writeFile" /\ Ended(p)
    /\ Len(procs[p].cmds) >= 3
    /\ ~Exists(procs[p].before, Dirname(procs[p].uri.path))
    /\ ShMkdirP(procs[p].before, Dirname(procs[p].uri.path)).err = ""
    /\ \/ procs[p].rejected
       \/ procs[p].after[procs[p].uri.path] # File(procs[p].content)

\* C19: when the write of a writeFile fails after the step before it created
\* the parent directory, the operation fails with Unavailable and emits no
\* event, the parent directory is there without the file, and the write is
\* the last command the operation issued.
C19_NoRollback ==
    \A p \in Procs :
        WriteFailedAfterMkdir(p) =>
            /\ procs[p].result = "Unavailable"
            /\ procs[p].events = <<>>
            /\ IsDir(procs[p].after, Dirname(procs[p].uri.path))
            /\ ~Exists(procs[p].after, procs[p].uri.path)
            /\ procs[p].after # procs[p].before
            /\ Issued(p) = WriteOrder

C19_Witness ==
    \E p \in Procs :
        /\ WriteFailedAfterMkdir(p)
        /\ procs[p].uri.path = <<"d", "g", "d">>
        /\ IsDir(procs[p].after, <<"d", "g">>)
        /\ procs[p].changed

\* the step of p that follows the return or the rejection of its pending command
Resume(p) ==
    \/ StatResume(p) \/ ReadDirectoryResume(p)
    \/ ReadFileResume(p) \/ ReadFileCheckResume(p)
    \/ WriteFileExistsResume(p) \/ WriteFileMkdirResume(p) \/ WriteFileWriteResume(p)
    \/ CreateDirectoryResume(p) \/ DeleteResume(p)
    \/ RenameExistsResume(p) \/ RenameMvResume(p)

\* the most commands an operation may issue
MaxCommands(op) ==
    CASE op \in {"stat", "readDirectory", "createDirectory", "delete"} -> 1
      [] op \in {"readFile", "rename"} -> 2
      [] op = "writeFile" -> 3
      [] OTHER -> 0

\* C20: an operation issues none of its commands twice: stat, readDirectory,
\* createDirectory and delete issue at most one command, readFile and rename
\* at most two, writeFile at most three; an operation that has not ended
\* awaits one command and goes on when that command returns or is rejected;
\* and it has ended, with a result or an error, as soon as every command it
\* issued has resolved or one was rejected.
C20_NoRetry ==
    \A p \in Procs :
        Called(p) =>
            /\ Len(procs[p].cmds) <= MaxCommands(procs[p].op)
            /\ \A i, j \in 1..Len(procs[p].cmds) : i # j => Issued(p)[i] # Issued(p)[j]
            /\ InFlight(p) => ENABLED Resume(p)
            /\ (procs[p].rejected \/ procs[p].ran = Len(procs[p].cmds)) =>
                  Ended(p) /\ procs[p].result # ""
            /\ Ended(p) => (procs[p].rejected \/ procs[p].ran = Len(procs[p].cmds))

C20_Witness ==
    \E p, q \in Procs :
        /\ procs[p].op = "writeFile" /\ Ended(p) /\ Len(procs[p].cmds) = 3
        /\ procs[q].op = "stat" /\ Ended(q) /\ procs[q].rejected /\ Len(procs[q].cmds) = 1

====
